---- MODULE Spec2Model ----
(***************************************************************************)
(* Model of internal/machines/machines.go: the assembly pass that builds   *)
(* a Machines value out of the flat list of zfs datasets (New / Refresh /  *)
(* refresh, triageDatasets, newMachineFromDataset, attachSystemAndHistory, *)
(* attachRemainingDatasets, attachRemainingDatasetsForHistory).            *)
(*                                                                         *)
(* Go strings are sequences of one-character strings, so that prefix,      *)
(* suffix, split and the other text operations of the code are computed    *)
(* and not assumed.  A *zfs.Dataset pointer is the name of the dataset it  *)
(* points to (names are unique in an inventory).  A Go map is a function;  *)
(* a `range` over a map takes an arbitrary permutation of its keys.        *)
(***************************************************************************)
EXTENDS Integers, Sequences, FiniteSets, TLC

(***************************************************************************)
(* Go's strings, strconv and path/filepath, as used by the code.           *)
(***************************************************************************)

\* strings.HasPrefix
HasPrefix(s, p) == Len(p) <= Len(s) /\ SubSeq(s, 1, Len(p)) = p

\* strings.HasSuffix
HasSuffix(s, p) == Len(p) <= Len(s) /\ SubSeq(s, Len(s) - Len(p) + 1, Len(s)) = p

\* strings.Contains
Contains(s, p) == \E i \in 1..(Len(s) - Len(p) + 1) : SubSeq(s, i, i + Len(p) - 1) = p

\* strings.LastIndex for a one-byte separator: 0-based index, -1 when absent
RECURSIVE LastIndexFrom(_, _, _)
LastIndexFrom(s, c, i) ==
    IF i = 0 THEN -1 ELSE IF s[i] = c THEN i - 1 ELSE LastIndexFrom(s, c, i - 1)
LastIndex(s, c) == LastIndexFrom(s, c, Len(s))

\* strings.Index for a one-byte separator: 0-based index, -1 when absent
RECURSIVE IndexFrom(_, _, _)
IndexFrom(s, c, i) ==
    IF i > Len(s) THEN -1 ELSE IF s[i] = c THEN i - 1 ELSE IndexFrom(s, c, i + 1)
Index(s, c) == IndexFrom(s, c, 1)

\* strings.Split for a one-byte separator: Split("", sep) is [""]
RECURSIVE Split(_, _)
Split(s, c) ==
    LET i == Index(s, c)
    IN  IF i < 0 THEN <<s>>
        ELSE <<SubSeq(s, 1, i)>> \o Split(SubSeq(s, i + 2, Len(s)), c)

\* strings.Join for a one-byte separator
RECURSIVE Join(_, _)
Join(parts, c) ==
    IF Len(parts) = 0 THEN <<>>
    ELSE IF Len(parts) = 1 THEN parts[1]
    ELSE parts[1] \o <<c>> \o Join(Tail(parts), c)

UpperCase == <<"A","B","C","D","E","F","G","H","I","J","K","L","M",
               "N","O","P","Q","R","S","T","U","V","W","X","Y","Z">>
LowerCase == <<"a","b","c","d","e","f","g","h","i","j","k","l","m",
               "n","o","p","q","r","s","t","u","v","w","x","y","z">>

\* strings.ToLower
LowerChar(c) ==
    IF \E k \in 1..26 : UpperCase[k] = c
    THEN LowerCase[CHOOSE k \in 1..26 : UpperCase[k] = c]
    ELSE c
RECURSIVE ToLower(_)
ToLower(s) == IF Len(s) = 0 THEN <<>> ELSE <<LowerChar(s[1])>> \o ToLower(Tail(s))

Digits == <<"0","1","2","3","4","5","6","7","8","9">>

\* strconv.Itoa
RECURSIVE ItoaNat(_)
ItoaNat(n) == IF n < 10 THEN <<Digits[n + 1]>> ELSE ItoaNat(n \div 10) \o <<Digits[(n % 10) + 1]>>
Itoa(n) == IF n < 0 THEN <<"-">> \o ItoaNat(-n) ELSE ItoaNat(n)

\* filepath.Base: trailing slashes dropped, then the last element; "." for ""
RECURSIVE Base(_)
Base(s) ==
    IF Len(s) = 0 THEN <<".">>
    ELSE IF s[Len(s)] = "/" THEN (IF Len(s) = 1 THEN <<"/">> ELSE Base(SubSeq(s, 1, Len(s) - 1)))
    ELSE LET e == Split(s, "/") IN e[Len(e)]

\* Byte order of the characters names are made of (ASCII order).
Ascii == <<" ", "#", "-", ".", "/", "0","1","2","3","4","5","6","7","8","9", ":", "=", "@">>
         \o UpperCase \o <<"_">> \o LowerCase
Ord(c) == CHOOSE k \in 1..Len(Ascii) : Ascii[k] = c

\* Go's < on strings: byte-wise lexicographic
RECURSIVE StrLess(_, _)
StrLess(a, b) ==
    IF Len(b) = 0 THEN FALSE
    ELSE IF Len(a) = 0 THEN TRUE
    ELSE IF a[1] = b[1] THEN StrLess(Tail(a), Tail(b))
    ELSE Ord(a[1]) < Ord(b[1])

\* The set of sequences listing every element of S once: the orders in which
\* a `range` over a map with key set S may visit it.
RECURSIVE PermSeqs(_)
PermSeqs(S) ==
    IF S = {} THEN {<<>>}
    ELSE UNION {{<<x>> \o p : p \in PermSeqs(S \ {x})} : x \in S}

\* sort.Strings on a key set
RECURSIVE InsertKey(_, _)
InsertKey(s, k) ==
    IF Len(s) = 0 THEN <<k>>
    ELSE IF StrLess(k, s[1]) THEN <<k>> \o s
    ELSE <<s[1]>> \o InsertKey(Tail(s), k)
RECURSIVE SortedKeys(_)
SortedKeys(S) ==
    IF S = {} THEN <<>>
    ELSE LET k == CHOOSE x \in S : TRUE IN InsertKey(SortedKeys(S \ {k}), k)

\* The elements of a sequence
Range(s) == {s[i] : i \in 1..Len(s)}

\* The subsequence of s of the elements satisfying Test
RECURSIVE SelectIn(_, _)
SelectIn(s, T) ==
    IF Len(s) = 0 THEN <<>>
    ELSE (IF s[1] \in T THEN <<s[1]>> ELSE <<>>) \o SelectIn(Tail(s), T)

(***************************************************************************)
(* zfs.Dataset and the inventories the adapter may report.                 *)
(***************************************************************************)

\* zfs.Dataset: the properties the pass reads
DS(name, mountpoint, canmount, snapshot, origin, bootfs, bootfsdatasets, lastused) ==
    [Name |-> name, Mountpoint |-> mountpoint, CanMount |-> canmount,
     IsSnapshot |-> snapshot, Origin |-> origin, BootFS |-> bootfs,
     BootfsDatasets |-> bootfsdatasets, LastUsed |-> lastused]

RootA    == <<"r","/","R","/","a">>
RootB    == <<"r","/","R","/","b">>
UserDataPool == <<"r","/","U","S","E","R","D","A","T","A","/">>

\* The datasets an inventory is drawn from.  A *zfs.Dataset is the key of the
\* dataset in this table; the key is written like the dataset's name but is
\* never read as text: the pass reads Deref(p).Name.
Catalog ==
    \* a main root, zsys
    ("r/R/a" :> DS(RootA, <<"/">>, "on", FALSE, <<>>, TRUE, <<>>, 1))
    \* a second main root
    @@ ("r/R/b" :> DS(RootB, <<"/">>, "on", FALSE, <<>>, FALSE, <<>>, 0))
    \* a snapshot of the first root
    @@ ("r/R/a@s" :> DS(RootA \o <<"@","s">>, <<"/">>, "on", TRUE, <<>>, TRUE, <<>>, 3))
    \* a clone of r/R/a@s mounted on /, named below r/R/b
    @@ ("r/R/b/h" :> DS(RootB \o <<"/","h">>, <<"/">>, "noauto", FALSE,
                        RootA \o <<"@","s">>, FALSE, <<>>, 0))
    \* a child of the first root
    @@ ("r/R/a/v" :> DS(RootA \o <<"/","v">>, <<"/","v">>, "on", FALSE, <<>>, FALSE, <<>>, 0))
    \* the boot dataset of the first root, on another pool
    @@ ("b/B/a" :> DS(<<"b","/","B","/","a">>, <<"/","b","o","o","t">>, "on", FALSE,
                      <<>>, FALSE, <<>>, 0))
    \* user u, tagged to r/R/a
    @@ ("r/USERDATA/u_x" :> DS(UserDataPool \o <<"u","_","x">>, <<"/","u">>, "on", FALSE,
                               <<>>, FALSE, RootA, 2))
    \* two snapshots of it, last used unknown
    @@ ("r/USERDATA/u_x@s" :> DS(UserDataPool \o <<"u","_","x","@","s">>, <<"/","u">>, "on",
                                 TRUE, <<>>, FALSE, RootA, 0))
    @@ ("r/USERDATA/u_x@t" :> DS(UserDataPool \o <<"u","_","x","@","t">>, <<"/","u">>, "on",
                                 TRUE, <<>>, FALSE, RootA, 0))
    \* user w, tagged to both roots, canmount off
    @@ ("r/USERDATA/w_y" :> DS(UserDataPool \o <<"w","_","y">>, <<"/","w">>, "off", FALSE,
                               <<>>, FALSE, RootA \o <<":">> \o RootB, 0))
    \* a user clone whose origin is not in the inventory
    @@ ("r/USERDATA/z_q" :> DS(UserDataPool \o <<"z","_","q">>, <<"/","z">>, "on", FALSE,
                               UserDataPool \o <<"n","_","n","@","s">>, FALSE, <<>>, 0))
    \* a root that cannot be mounted
    @@ ("r/R/o" :> DS(<<"r","/","R","/","o">>, <<"/">>, "off", FALSE, <<>>, FALSE, <<>>, 0))
    \* a persistent dataset
    @@ ("p/d" :> DS(<<"p","/","d">>, <<"/","d">>, "on", FALSE, <<>>, FALSE, <<>>, 0))

\* The largest inventory considered.
MaxVolumes == 5

Inventories == {V \in SUBSET DOMAIN Catalog : Cardinality(V) <= MaxVolumes}

\* The dataset a pointer points to.
Deref(p) == Catalog[p]

\* The kernel command lines considered: "root=ZFS=r/R/a" and "ro root=zfs:r/R/b/h".
Cmdlines ==
    { <<"r","o","o","t","=","Z","F","S","=">> \o RootA,
      <<"r","o"," ","r","o","o","t","=","z","f","s",":">> \o RootB \o <<"/","h">> }

(***************************************************************************)
(* The helpers of the package the pass calls.                              *)
(***************************************************************************)

\* The name of the dataset a snapshot was taken of (the name itself otherwise).
SnapshotBase(n) == LET i == Index(n, "@") IN IF i < 0 THEN n ELSE SubSeq(n, 1, i)

\* sortedDataset.Less: parents before children, "@" below "/" so that the
\* snapshots of a dataset come right after it and before its children.
SortRank(c) == IF c = "@" THEN 0 ELSE Ord(c) + 1
RECURSIVE DatasetLess(_, _)
DatasetLess(a, b) ==
    IF Len(b) = 0 THEN FALSE
    ELSE IF Len(a) = 0 THEN TRUE
    ELSE IF a[1] = b[1] THEN DatasetLess(Tail(a), Tail(b))
    ELSE SortRank(a[1]) < SortRank(b[1])

\* sort.Sort(sortedDataset(datasets))
RECURSIVE InsertDataset(_, _)
InsertDataset(s, p) ==
    IF Len(s) = 0 THEN <<p>>
    ELSE IF DatasetLess(Deref(p).Name, Deref(s[1]).Name) THEN <<p>> \o s
    ELSE <<s[1]>> \o InsertDataset(Tail(s), p)
RECURSIVE SortDatasets(_)
SortDatasets(ds) ==
    IF ds = {} THEN <<>>
    ELSE LET p == CHOOSE x \in ds : TRUE IN InsertDataset(SortDatasets(ds \ {p}), p)

\* The datasets of a list with a given name
Named(ds, name) == {p \in ds : Deref(p).Name = name}

\* The walk of resolveOrigin along the origin chain, from the dataset named
\* cur: <<root name>> when it ends on a dataset without origin, <<>> when a
\* name of the chain is not among the datasets ds.
RECURSIVE OriginWalk(_, _, _)
OriginWalk(cur, ds, fuel) ==
    IF Named(ds, cur) = {} \/ fuel = 0 THEN <<>>
    ELSE LET d == Deref(CHOOSE p \in Named(ds, cur) : TRUE)
         IN  IF d.Origin = <<>> THEN <<cur>>
             ELSE OriginWalk(SnapshotBase(d.Origin), ds, fuel - 1)

\* resolveOrigin(ctx, datasets, onlyOnMountpoint): name -> "" for a true root,
\* the name of its root origin for a clone or a snapshot; unresolved names are
\* absent from the map.
resolveOrigin(datasets, onlyOnMountpoint) ==
    LET ds == Range(datasets)
        start(p) == IF Deref(p).IsSnapshot THEN SnapshotBase(Deref(p).Name) ELSE Deref(p).Name
        candidate(p) ==
            \/ onlyOnMountpoint = <<>>
            \/ \E q \in Named(ds, start(p)) : Deref(q).Mountpoint = onlyOnMountpoint
        walk(p) == OriginWalk(start(p), ds, Cardinality(ds))
        resolved == {p \in ds : candidate(p) /\ walk(p) # <<>>}
    IN  [n \in {Deref(p).Name : p \in resolved} |->
            LET p == CHOOSE q \in resolved : Deref(q).Name = n
            IN  IF walk(p)[1] = n THEN <<>> ELSE walk(p)[1]]

\* origins[name] as a *string: <<>> is nil, <<o>> points to o
OriginOf(origins, n) == IF n \in DOMAIN origins THEN <<origins[n]>> ELSE <<>>

\* isChild(name, d): d is a strict descendant of name, a snapshot name being
\* compared without its @tag.  An error of isChild is logged and has the
\* effect of `false` on the pass.
isChild(name, d) == HasPrefix(d.Name, SnapshotBase(name) \o <<"/">>)

\* getRootDatasets: the datasets of the list without a parent in the list,
\* each with its descendants in list order.
getRootDatasets(ds) ==
    LET under(p, q) == HasPrefix(Deref(p).Name, Deref(q).Name \o <<"/">>)
        roots == {p \in Range(ds) : ~\E q \in Range(ds) : under(p, q)}
    IN  [r \in roots |-> SelectIn(ds, {p \in Range(ds) : under(p, r)})]

\* appendIfNotPresent(main, new, true): the datasets of `new` not yet in `main`
RECURSIVE appendIfNotPresent(_, _)
appendIfNotPresent(main, new) ==
    IF Len(new) = 0 THEN main
    ELSE appendIfNotPresent(IF new[1] \in Range(main) THEN main ELSE Append(main, new[1]), Tail(new))

\* sortedMachineKeys / sortedStateKeys
sortedMachineKeys(m) == SortedKeys(DOMAIN m)
sortedStateKeys(m) == SortedKeys(DOMAIN m)

\* A Go map with one more entry
MapPut(f, k, v) == (k :> v) @@ f

(***************************************************************************)
(* Triage: machines, their system datasets and their history.              *)
(***************************************************************************)

\* *time.Time of a dataset's LastUsed: nil (<<>>) for 0
LastUsedOf(d) == IF d.LastUsed # 0 THEN <<d.LastUsed>> ELSE <<>>

\* State{ID, IsZsys, SystemDatasets: {&d}} with LastUsed set when not 0
NewState(p) ==
    [ID |-> Deref(p).Name, IsZsys |-> Deref(p).BootFS, LastUsed |-> LastUsedOf(Deref(p)),
     SystemDatasets |-> <<p>>, UserDatasets |-> <<>>, PersistentDatasets |-> <<>>]

\* The test of newMachineFromDataset had it no condition on CanMount
IsMainDatasetAnyCanMount(d, origin) ==
    d.Mountpoint = <<"/">> /\ origin # <<>> /\ origin[1] = <<>>

\* The test of newMachineFromDataset: a mountable, non cloned /
IsMainDataset(d, origin) ==
    d.Mountpoint = <<"/">> /\ d.CanMount # "off" /\ origin # <<>> /\ origin[1] = <<>>

\* newMachineFromDataset(d, origin), p pointing to d: <<m>>, or <<>> for nil
newMachineFromDataset(p, origin) ==
    IF IsMainDataset(Deref(p), origin)
    THEN << [ID |-> Deref(p).Name, IsZsys |-> Deref(p).BootFS,
             LastUsed |-> LastUsedOf(Deref(p)),
             SystemDatasets |-> <<p>>, UserDatasets |-> <<>>,
             PersistentDatasets |-> <<>>, Users |-> <<>>, History |-> <<>>] >>
    ELSE <<>>

\* The test of attachSystemAndHistory had it accepted the clones and snapshots
\* of any root
IsHistoryOfAnyRoot(d, origin, m) ==
    d.Mountpoint = <<"/">> /\ d.CanMount # "off" /\ origin # <<>> /\ origin[1] # <<>>

\* The test of attachSystemAndHistory for a clone or snapshot of m's root
IsHistoryOf(d, origin, m) ==
    d.Mountpoint = <<"/">> /\ d.CanMount # "off" /\ origin # <<>> /\ origin[1] = m.ID

\* One turn of the loop of attachSystemAndHistory, on machine all[k]; the
\* history of the machine is visited in the order horder.
VisitMachine(all, k, p, origin, horder) ==
    LET m == all[k]
        d == Deref(p)
        hits == {i \in 1..Len(horder) : isChild(m.History[horder[i]].ID, d)}
        h == horder[CHOOSE i \in hits : \A j \in hits : i <= j]
    IN  IF isChild(m.ID, d)
        THEN [ok |-> TRUE, all |-> [all EXCEPT ![k].SystemDatasets = Append(@, p)]]
        ELSE IF IsHistoryOf(d, origin, m)
        THEN [ok |-> TRUE, all |-> [all EXCEPT ![k].History = MapPut(@, d.Name, NewState(p))]]
        ELSE IF hits # {}
        THEN [ok |-> TRUE, all |-> [all EXCEPT ![k].History[h].SystemDatasets = Append(@, p)]]
        ELSE [ok |-> FALSE, all |-> all]

\* attachSystemAndHistory(ctx, d, origin), machines.all being visited in the
\* order morder and the history of machine k in the order horders[k].
RECURSIVE attachSystemAndHistory(_, _, _, _, _)
attachSystemAndHistory(all, p, origin, morder, horders) ==
    IF Len(morder) = 0 THEN [ok |-> FALSE, all |-> all]
    ELSE LET r == VisitMachine(all, morder[1], p, origin, horders[morder[1]])
         IN  IF r.ok THEN r
             ELSE attachSystemAndHistory(all, p, origin, Tail(morder), horders)

\* The orders in which the maps of attachSystemAndHistory may be visited
MachineOrders(all) == PermSeqs(DOMAIN all)
HistoryOrders(all) ==
    LET S == UNION {PermSeqs(DOMAIN all[k].History) : k \in DOMAIN all}
    IN  {f \in [DOMAIN all -> S] : \A k \in DOMAIN all : f[k] \in PermSeqs(DOMAIN all[k].History)}

\* One turn of the loop of triageDatasets had line 258 no `continue`: the
\* dataset logged as ignored is a persistent dataset too
triageDatasetKeepsIgnored(t, p, origin, morder, horders) ==
    LET d == Deref(p)
        m == newMachineFromDataset(p, origin)
        a == attachSystemAndHistory(t.all, p, origin, morder, horders)
    IN  IF m # <<>> THEN [t EXCEPT !.all = MapPut(@, d.Name, m[1])]
        ELSE IF a.ok THEN [t EXCEPT !.all = a.all]
        ELSE IF HasPrefix(d.Mountpoint, <<"/","b","o","o","t">>)
        THEN [t EXCEPT !.boots = Append(@, p)]
        ELSE IF Contains(ToLower(d.Name), <<"/","u","s","e","r","d","a","t","a","/">>)
        THEN [t EXCEPT !.userdatas = Append(@, p)]
        ELSE IF d.CanMount # "on"
        THEN [t EXCEPT !.ignored = Append(@, p), !.persistents = Append(@, p)]
        ELSE [t EXCEPT !.persistents = Append(@, p)]

\* One turn of the loop of triageDatasets, on the dataset d that p points
\* to.  t holds machines.all, the three lists the function returns and the
\* datasets logged as ignored.
triageDataset(t, p, origin, morder, horders) ==
    LET d == Deref(p)
        m == newMachineFromDataset(p, origin)
        a == attachSystemAndHistory(t.all, p, origin, morder, horders)
    IN  IF m # <<>> THEN [t EXCEPT !.all = MapPut(@, d.Name, m[1])]
        ELSE IF a.ok THEN [t EXCEPT !.all = a.all]
        ELSE IF HasPrefix(d.Mountpoint, <<"/","b","o","o","t">>)
        THEN [t EXCEPT !.boots = Append(@, p)]
        ELSE IF Contains(ToLower(d.Name), <<"/","u","s","e","r","d","a","t","a","/">>)
        THEN [t EXCEPT !.userdatas = Append(@, p)]
        ELSE IF d.CanMount # "on" THEN [t EXCEPT !.ignored = Append(@, p)]
        ELSE [t EXCEPT !.persistents = Append(@, p)]

(***************************************************************************)
(* Attachment of the boot, user and persistent datasets.                   *)
(***************************************************************************)

\* The test on a BootfsDatasets tag list (lines 363-364, 440-441, 517-518):
\* an element equal to id, or the raw list starting with id + "/"
BootfsMatch(tags, id) ==
    \E bootfsDataset \in Range(Split(tags, ":")) :
        bootfsDataset = id \/ HasPrefix(tags, id \o <<"/">>)

\* The last element of a name split on "/"
LastElem(id) == LET e == Split(id, "/") IN e[Len(e)]

\* Boot datasets of a machine: base name or subdataset of it, no snapshot
MachineBoots(id, boots) ==
    LET mid == LastElem(id)
    IN  SelectIn(boots, {p \in Range(boots) :
            /\ ~Deref(p).IsSnapshot
            /\ \/ HasSuffix(Deref(p).Name, <<"/">> \o mid)
               \/ Contains(Deref(p).Name, <<"/">> \o mid \o <<"/">>)})

\* userRootDatasets (lines 356-372): the non snapshot roots tagged to the
\* machine.  The slice is only searched (lines 378-386 and 404-408), so the
\* order in which the first loop over userdatas fills it has no effect; it is
\* listed in name order.
UserRootDatasets(id, userdatas) ==
    SelectIn(SortDatasets(DOMAIN userdatas), {r \in DOMAIN userdatas :
        ~Deref(r).IsSnapshot /\ BootfsMatch(Deref(r).BootfsDatasets, id)})

\* A root user dataset is relative to one of the machine's (lines 377-386)
IsRelative(r, userdatas, userRoots) ==
    \E i \in 1..Len(userRoots) :
        LET u == userRoots[i]
            ou == userdatas[u].origin
            o == userdatas[r].origin
        IN  \/ r = u
            \/ (o # <<>> /\ o = ou)
            \/ (ou = <<>> /\ o = Deref(u).Name)
            \/ (o = <<>> /\ ou = Deref(r).Name)

\* The user a root user dataset belongs to (lines 392-396)
UserOf(r) ==
    LET t == Split(Base(Deref(r).Name), "_")
    IN  IF Len(t) > 1 THEN Join(SubSeq(t, 1, Len(t) - 1), "_") ELSE t[1]

Current == <<"c","u","r","r","e","n","t">>

\* The timestamp slot of a root user dataset (lines 402-413)
TimestampOf(r, userRoots) ==
    IF r \in Range(userRoots) THEN Current ELSE Itoa(Deref(r).LastUsed)

\* UserState.ID of a root user dataset (lines 416-424)
UserStateID(r) ==
    LET t == Split(Base(Deref(r).Name), IF Deref(r).IsSnapshot THEN "@" ELSE "_")
    IN  IF Len(t) > 1 THEN t[Len(t)] ELSE <<>>

\* The loop building m.Users (lines 375-431), userdatas visited in `order`
RECURSIVE BuildUsers(_, _, _, _)
BuildUsers(users, order, userdatas, userRoots) ==
    IF Len(order) = 0 THEN users
    ELSE LET r == order[1]
             user == UserOf(r)
             ts == TimestampOf(r, userRoots)
             had == IF user \in DOMAIN users THEN users[user] ELSE <<>>
             slot == [ID |-> UserStateID(r), Datasets |-> <<r>> \o userdatas[r].children]
             next == IF ~IsRelative(r, userdatas, userRoots) THEN users
                     ELSE IF ts \in DOMAIN had THEN MapPut(users, user, had)
                     ELSE MapPut(users, user, MapPut(had, ts, slot))
         IN  BuildUsers(next, Tail(order), userdatas, userRoots)

\* The loop attaching the current user datasets (lines 434-447), m.Users
\* visited in `order`
RECURSIVE CurrentUserDatasets(_, _, _)
CurrentUserDatasets(users, order, id) ==
    IF Len(order) = 0 THEN <<>>
    ELSE LET us == users[order[1]]
             mine == IF Current \in DOMAIN us
                     THEN SelectIn(us[Current].Datasets,
                            {p \in Range(us[Current].Datasets) :
                                BootfsMatch(Deref(p).BootfsDatasets, id)})
                     ELSE <<>>
         IN  mine \o CurrentUserDatasets(users, Tail(order), id)

\* The snapshot name of a history state: text after the last "@" of the
\* last element of its ID (lines 465-471)
SnapshotOf(id) ==
    LET sid == LastElem(id)
        j == LastIndex(sid, "@")
    IN  IF j > 0 THEN SubSeq(sid, j + 2, Len(sid)) ELSE <<>>

\* Boot datasets of a history state (lines 474-488)
HistoryBoots(id, boots) ==
    LET sid == LastElem(id)
        snapshot == SnapshotOf(id)
    IN  SelectIn(boots, {p \in Range(boots) :
            \/ (snapshot # <<>> /\ HasSuffix(Deref(p).Name, <<"@">> \o snapshot))
            \/ HasSuffix(Deref(p).Name, sid)
            \/ Contains(Deref(p).Name, <<"/">> \o sid \o <<"/">>)})

\* User datasets of a snapshot history state for one user (lines 496-504),
\* the states of the user visited in `slots`
RECURSIVE SnapshotUserDatasets(_, _, _)
SnapshotUserDatasets(us, slots, snapshot) ==
    IF Len(slots) = 0 THEN <<>>
    ELSE LET st == us[slots[1]]
         IN  (IF Deref(st.Datasets[1]).IsSnapshot /\ st.ID = snapshot
              THEN st.Datasets ELSE <<>>)
             \o SnapshotUserDatasets(us, Tail(slots), snapshot)

\* User datasets of a clone history state for one user (lines 510-529): the
\* first state, in `slots` order, with a dataset tagged to the state
RECURSIVE CloneUserDatasets(_, _, _)
CloneUserDatasets(us, slots, id) ==
    IF Len(slots) = 0 THEN <<>>
    ELSE LET st == us[slots[1]]
             found == SelectIn(st.Datasets, {p \in Range(st.Datasets) :
                          BootfsMatch(Deref(p).BootfsDatasets, id)})
         IN  IF Deref(st.Datasets[1]).IsSnapshot THEN CloneUserDatasets(us, Tail(slots), id)
             ELSE IF found # <<>> THEN found
             ELSE CloneUserDatasets(us, Tail(slots), id)

\* The loop over the users of attachRemainingDatasetsForHistory (lines 492-530)
RECURSIVE HistoryUserDatasets(_, _, _, _)
HistoryUserDatasets(users, uorder, sorders, id) ==
    IF Len(uorder) = 0 THEN <<>>
    ELSE LET user == uorder[1]
         IN  (IF SnapshotOf(id) # <<>>
              THEN SnapshotUserDatasets(users[user], sorders[user], SnapshotOf(id))
              ELSE CloneUserDatasets(users[user], sorders[user], id))
             \o HistoryUserDatasets(users, Tail(uorder), sorders, id)

\* h.attachRemainingDatasetsForHistory(boots, persistents, userdatas)
attachRemainingDatasetsForHistory(h, boots, persistents, users, uorder, sorders) ==
    [h EXCEPT !.SystemDatasets = @ \o HistoryBoots(h.ID, boots),
              !.UserDatasets = @ \o HistoryUserDatasets(users, uorder, sorders, h.ID),
              !.PersistentDatasets = persistents]

\* The orders in which one call of attachRemainingDatasetsForHistory may
\* visit the users and the states of each user
SlotOrders(users) ==
    LET S == UNION {PermSeqs(DOMAIN users[u]) : u \in DOMAIN users}
    IN  {f \in [DOMAIN users -> S] : \A u \in DOMAIN users : f[u] \in PermSeqs(DOMAIN users[u])}
HistoryVisits(users) == [uorder : PermSeqs(DOMAIN users), sorders : SlotOrders(users)]

\* m.Users after the loop of lines 375-431, userdatas visited in order o2
MachineUsers(m, userdatas, o2) ==
    BuildUsers(m.Users, o2, userdatas, UserRootDatasets(m.ID, userdatas))

\* m.attachRemainingDatasets from line 433 on, m.Users being `users`: o3 is
\* the order of the loop over m.Users, hv[k] the orders taken by the call for
\* history state k.
AttachWithUsers(m, boots, persistents, users, o3, hv) ==
    [m EXCEPT
        !.SystemDatasets = @ \o MachineBoots(m.ID, boots),
        !.UserDatasets = @ \o CurrentUserDatasets(users, o3, m.ID),
        !.PersistentDatasets = persistents,
        !.History = [k \in DOMAIN m.History |->
            attachRemainingDatasetsForHistory(m.History[k], boots, persistents,
                                              users, hv[k].uorder, hv[k].sorders)],
        !.Users = <<>>]

\* m.attachRemainingDatasets(ctx, boots, persistents, userdatas): o2 is the
\* order of the loop over userdatas that builds m.Users.
attachRemainingDatasets(m, boots, persistents, userdatas, o2, o3, hv) ==
    AttachWithUsers(m, boots, persistents, MachineUsers(m, userdatas, o2), o3, hv)

\* Every value attachRemainingDatasets may leave in m, over the orders in
\* which its loops may visit the maps
AttachedMachines(m, bts, pers, udatas) ==
    UNION { { attachRemainingDatasets(m, bts, pers, udatas, o2, o3, hv) :
                o3 \in PermSeqs(DOMAIN MachineUsers(m, udatas, o2)),
                hv \in [DOMAIN m.History -> HistoryVisits(MachineUsers(m, udatas, o2))] } :
            o2 \in PermSeqs(DOMAIN udatas) }

(***************************************************************************)
(* Current machine.                                                        *)
(***************************************************************************)

\* No machine: a nil *Machine
NoMachine == <<>>

\* bootParametersFromCmdline: the name after the first root= token, without
\* its zfs: or ZFS= prefix; "" when there is none
bootParametersFromCmdline(cmdline) ==
    LET toks == Split(cmdline, " ")
        hits == {i \in 1..Len(toks) : HasPrefix(toks[i], <<"r","o","o","t","=">>)}
        tok == toks[CHOOSE i \in hits : \A j \in hits : i <= j]
        val == SubSeq(tok, 6, Len(tok))
    IN  IF hits = {} THEN <<>>
        ELSE IF HasPrefix(val, <<"z","f","s",":">>) \/ HasPrefix(val, <<"Z","F","S","=">>)
        THEN SubSeq(val, 5, Len(val))
        ELSE val

\* machines.findFromRoot(root): the machine of that name, else the machine
\* with a history state of that name, else nil
findFromRoot(all, root) ==
    IF root \in DOMAIN all THEN root
    ELSE IF \E k \in DOMAIN all : root \in DOMAIN all[k].History
    THEN CHOOSE k \in DOMAIN all : root \in DOMAIN all[k].History
    ELSE NoMachine

(***************************************************************************)
(* State.                                                                  *)
(***************************************************************************)
VARIABLES
    z,                  \* the datasets the adapter holds (machines.z.Datasets())
    machines,           \* the caller's Machines value
    newMachines,        \* the Machines value a pass is filling
    op,                 \* the call in progress: "New", "Refresh" or "none"
    pc,                 \* the position of the call
    err,                \* what the last call returned: "nil" or "error"
    sortedDataset,      \* refresh: the sorted datasets
    origins,            \* refresh: the resolved origins
    allDatasets,        \* refresh: main, clone then other datasets
    idx,                \* the dataset or machine the current loop is at
    boots,              \* triageDatasets: boot datasets
    flattenedUserDatas, \* triageDatasets: user datasets
    persistents,        \* triageDatasets: persistent datasets
    ignored,            \* the datasets logged as ignored (line 258)
    userdatas,          \* refresh: root user dataset -> origin and children
    before,             \* the caller's value when Refresh was called
    zBefore,            \* the datasets the adapter held when Refresh was called
    copied,             \* the fields of *machines already overwritten
    seen                \* what a concurrent reader last read of *machines

vars == <<z, machines, newMachines, op, pc, err, sortedDataset, origins, allDatasets,
          idx, boots, flattenedUserDatas, persistents, ignored, userdatas, before,
          zBefore, copied, seen>>

locals == <<sortedDataset, origins, allDatasets, idx, boots, flattenedUserDatas,
            persistents, ignored, userdatas>>

\* Machines{all: make(map), cmdline: cmdline} (lines 100-104, 114-118)
FreshMachines(cmdline) ==
    [all |-> <<>>, cmdline |-> cmdline, current |-> NoMachine,
     allSystemDatasets |-> <<>>, allUsersDatasets |-> <<>>]

\* Machines{}
ZeroMachines == FreshMachines(<<>>)

NoLocals ==
    /\ sortedDataset' = <<>>
    /\ origins' = <<>>
    /\ allDatasets' = <<>>
    /\ idx' = 0
    /\ boots' = <<>>
    /\ flattenedUserDatas' = <<>>
    /\ persistents' = <<>>
    /\ ignored' = <<>>
    /\ userdatas' = <<>>

\* New is called: the adapter holds one of the inventories
InitWith(inventories) ==
    /\ z \in inventories
    /\ \E c \in Cmdlines : newMachines = FreshMachines(c)
    /\ machines = ZeroMachines
    /\ op = "New"
    /\ pc = "scan"
    /\ err = "nil"
    /\ sortedDataset = <<>>
    /\ origins = <<>>
    /\ allDatasets = <<>>
    /\ idx = 0
    /\ boots = <<>>
    /\ flattenedUserDatas = <<>>
    /\ persistents = <<>>
    /\ ignored = <<>>
    /\ userdatas = <<>>
    /\ before = ZeroMachines
    /\ zBefore = {}
    /\ copied = {}
    /\ seen = ZeroMachines

Init == InitWith(Inventories)

(***************************************************************************)
(* New and Refresh, up to the pass.                                        *)
(***************************************************************************)

\* New, lines 95-105: the adapter scanned, the pass starts
New ==
    /\ op = "New" /\ pc = "scan"
    /\ pc' = "sort"
    /\ UNCHANGED <<z, machines, newMachines, op, err, locals, before, zBefore, copied, seen>>

\* New, lines 95-98: the scan failed, Machines{} and the error are returned
NewScanFails ==
    /\ op = "New" /\ pc = "scan"
    /\ z' = {}
    /\ newMachines' = ZeroMachines
    /\ err' = "error"
    /\ op' = "none"
    /\ pc' = "failed"
    /\ UNCHANGED <<machines, locals, before, zBefore, copied, seen>>

\* Refresh, lines 114-118: a fresh value with the caller's cmdline and z
Refresh ==
    /\ op = "none" /\ pc = "idle"
    /\ op' = "Refresh"
    /\ pc' = "scan"
    /\ newMachines' = FreshMachines(machines.cmdline)
    /\ before' = machines
    /\ zBefore' = z
    /\ UNCHANGED <<z, machines, err, locals, copied, seen>>

\* What a new scan may find: the same datasets, or one snapshot destroyed
Rescans(V) == {V} \cup {V \ {p} : p \in {q \in V : Deref(q).IsSnapshot}}

\* Refresh, line 119: z.Refresh succeeded
RefreshScan ==
    /\ op = "Refresh" /\ pc = "scan"
    /\ z' \in Rescans(z)
    /\ pc' = "sort"
    /\ UNCHANGED <<machines, newMachines, op, err, locals, before, zBefore, copied, seen>>

\* Refresh had it filled the receiver in place: the failed scan leaves the
\* fresh value in *machines
RefreshScanFailsInPlace ==
    /\ op = "Refresh" /\ pc = "scan"
    /\ err' = "error"
    /\ op' = "none"
    /\ pc' = "idle"
    /\ machines' = newMachines
    /\ newMachines' = ZeroMachines
    /\ UNCHANGED <<z, locals, before, zBefore, copied, seen>>

\* Refresh, lines 119-121: z.Refresh failed, the error is returned
RefreshScanFails ==
    /\ op = "Refresh" /\ pc = "scan"
    /\ err' = "error"
    /\ op' = "none"
    /\ pc' = "idle"
    /\ newMachines' = ZeroMachines
    /\ UNCHANGED <<z, machines, locals, before, zBefore, copied, seen>>

(***************************************************************************)
(* refresh: the pass.                                                      *)
(***************************************************************************)

\* lines 153-166 and the append of line 169: main, then clones, then the rest
Buckets(sorted, orig) ==
    LET o(p) == OriginOf(orig, Deref(p).Name)
    IN  SelectIn(sorted, {p \in Range(sorted) : o(p) # <<>> /\ o(p)[1] = <<>>})
        \o SelectIn(sorted, {p \in Range(sorted) : o(p) # <<>> /\ o(p)[1] # <<>>})
        \o SelectIn(sorted, {p \in Range(sorted) : o(p) = <<>>})

\* lines 139-166: the datasets sorted, their origins resolved, the buckets
SortAndResolve ==
    /\ pc = "sort"
    /\ sortedDataset' = SortDatasets(z)
    /\ origins' = resolveOrigin(sortedDataset', <<"/">>)
    /\ allDatasets' = Buckets(sortedDataset', origins')
    /\ idx' = 1
    /\ pc' = "triage"
    /\ UNCHANGED <<z, machines, newMachines, op, err, boots,
                   flattenedUserDatas, persistents, ignored, userdatas, before, zBefore,
                   copied, seen>>

\* Every outcome of one turn of the loop of triageDatasets on the dataset p
\* points to, over the orders in which attachSystemAndHistory may visit
\* machines.all and the history of each machine
TriagedDataset(t, p, orig) ==
    { triageDataset(t, p, OriginOf(orig, Deref(p).Name), morder, horders) :
        morder \in MachineOrders(t.all), horders \in HistoryOrders(t.all) }

\* line 169, triageDatasets: one turn of its loop
Triage ==
    /\ pc = "triage" /\ idx <= Len(allDatasets)
    /\ \E t \in TriagedDataset([all |-> newMachines.all, boots |-> boots,
                                userdatas |-> flattenedUserDatas,
                                persistents |-> persistents, ignored |-> ignored],
                               allDatasets[idx], origins) :
          /\ newMachines' = [newMachines EXCEPT !.all = t.all]
          /\ boots' = t.boots
          /\ flattenedUserDatas' = t.userdatas
          /\ persistents' = t.persistents
          /\ ignored' = t.ignored
    /\ idx' = idx + 1
    /\ UNCHANGED <<z, machines, op, pc, err, sortedDataset, origins, allDatasets,
                   userdatas, before, zBefore, copied, seen>>

\* lines 172-186: userdatas, root user dataset -> origin and children.
\* <<>> stands for the nil pointer line 183 dereferences when the resolved
\* origins lack a root: no map is built then.
UserDatas(flattened) ==
    LET F(roots, orig) ==
            IF {Deref(k).Name : k \in DOMAIN roots} \subseteq DOMAIN orig
            THEN << [k \in DOMAIN roots |->
                       [origin |-> orig[Deref(k).Name], children |-> roots[k]]] >>
            ELSE <<>>
        G(roots) == F(roots, resolveOrigin(SortDatasets(DOMAIN roots), <<>>))
    IN  G(getRootDatasets(flattened))

\* lines 172-186: the userdata map, every root having a resolved origin
UserData ==
    /\ pc = "triage" /\ idx > Len(allDatasets)
    /\ \E u \in {UserDatas(flattenedUserDatas)} :
          /\ u # <<>>
          /\ userdatas' = u[1]
    /\ idx' = 1
    /\ pc' = "attach"
    /\ UNCHANGED <<z, machines, newMachines, op, err, sortedDataset, origins, allDatasets,
                   boots, flattenedUserDatas, persistents, ignored, before, zBefore,
                   copied, seen>>

\* line 183: *originsUserDatasets[k.Name] on a name absent from the map is a
\* nil pointer dereference; the goroutine panics
UserDataPanics ==
    /\ pc = "triage" /\ idx > Len(allDatasets)
    /\ UserDatas(flattenedUserDatas) = <<>>
    /\ pc' = "panic"
    /\ UNCHANGED <<z, machines, newMachines, op, err, locals, before, zBefore, copied, seen>>

\* m.SystemDatasets, then those of its history in key order (lines 196-200)
RECURSIVE HistorySystemDatasets(_, _)
HistorySystemDatasets(history, keys) ==
    IF Len(keys) = 0 THEN <<>>
    ELSE history[keys[1]].SystemDatasets \o HistorySystemDatasets(history, Tail(keys))
MachineSystemDatasets(m) ==
    m.SystemDatasets \o HistorySystemDatasets(m.History, sortedStateKeys(m.History))

\* lines 191-201: one turn of the loop over the sorted machine keys
Attach ==
    /\ pc = "attach" /\ idx <= Cardinality(DOMAIN newMachines.all)
    /\ LET k == sortedMachineKeys(newMachines.all)[idx]
       IN  \E am \in AttachedMachines(newMachines.all[k], boots, persistents, userdatas) :
              newMachines' = [newMachines EXCEPT
                    !.all[k] = am,
                    !.allSystemDatasets = @ \o MachineSystemDatasets(am)]
    /\ idx' = idx + 1
    /\ UNCHANGED <<z, machines, op, pc, err, sortedDataset, origins, allDatasets, boots,
                   flattenedUserDatas, persistents, ignored, userdatas, before, zBefore,
                   copied, seen>>

\* lines 203-208 had they no test of CanMount
EveryUserDataset(ds) == ds

\* lines 203-208: the user datasets that can be mounted
MountableUserDatasets(ds) ==
    SelectIn(ds, {p \in Range(ds) : Deref(p).CanMount # "off"})

\* lines 203-219: the flat lists and the current machine; refresh returns nil
Finish ==
    /\ pc = "attach" /\ idx > Cardinality(DOMAIN newMachines.all)
    /\ newMachines' = [newMachines EXCEPT
            !.allUsersDatasets = @ \o MountableUserDatasets(flattenedUserDatas),
            !.allSystemDatasets = appendIfNotPresent(@, boots),
            !.current = findFromRoot(newMachines.all,
                                     bootParametersFromCmdline(newMachines.cmdline))]
    /\ pc' = "return"
    /\ UNCHANGED <<z, machines, op, err, locals, before, zBefore, copied, seen>>

\* New, line 109: the value is returned to the caller
NewReturns ==
    /\ op = "New" /\ pc = "return"
    /\ machines' = newMachines
    /\ newMachines' = ZeroMachines
    /\ err' = "nil"
    /\ op' = "none"
    /\ pc' = "idle"
    /\ NoLocals
    /\ UNCHANGED <<z, before, zBefore, copied, seen>>

\* Refresh, lines 127-128: *machines = newMachines, no reader running
Publish ==
    /\ op = "Refresh" /\ pc = "return"
    /\ machines' = newMachines
    /\ newMachines' = ZeroMachines
    /\ err' = "nil"
    /\ op' = "none"
    /\ pc' = "idle"
    /\ NoLocals
    /\ UNCHANGED <<z, before, zBefore, copied, seen>>

Next ==
    \/ New
    \/ NewScanFails
    \/ Refresh
    \/ RefreshScan
    \/ RefreshScanFails
    \/ SortAndResolve
    \/ Triage
    \/ UserData
    \/ UserDataPanics
    \/ Attach
    \/ Finish
    \/ NewReturns
    \/ Publish

Spec == Init /\ [][Next]_vars

(***************************************************************************)
(* Refresh with a reader of the same Machines value running.               *)
(*                                                                         *)
(* Line 127, *machines = newMachines, is a plain assignment of a struct of *)
(* five fields and nothing in the file orders it with a reader: the fields *)
(* are stored one after the other, in an order the build chooses, and a    *)
(* reader may run between two stores.                                      *)
(***************************************************************************)
MaxVolumesConcurrent == 2

Fields == {"all", "cmdline", "current", "allSystemDatasets", "allUsersDatasets"}

\* line 127: one field of *machines is overwritten
PublishField ==
    /\ op = "Refresh" /\ pc = "return"
    /\ \E f \in Fields \ copied :
          /\ machines' = [machines EXCEPT ![f] = newMachines[f]]
          /\ copied' = copied \cup {f}
    /\ UNCHANGED <<z, newMachines, op, pc, err, locals, before, zBefore, seen>>

\* lines 127-128: every field is stored, Refresh returns nil
PublishDone ==
    /\ op = "Refresh" /\ pc = "return"
    /\ copied = Fields
    /\ copied' = {}
    /\ newMachines' = ZeroMachines
    /\ err' = "nil"
    /\ op' = "none"
    /\ pc' = "idle"
    /\ NoLocals
    /\ UNCHANGED <<z, machines, before, zBefore, seen>>

\* A reader of the value New returned reads its fields (lines 21-30)
Read ==
    /\ op = "Refresh" \/ pc = "idle"
    /\ seen' = machines
    /\ UNCHANGED <<z, machines, newMachines, op, pc, err, locals, before, zBefore, copied>>

NextConcurrent ==
    \/ New
    \/ NewScanFails
    \/ Refresh
    \/ RefreshScan
    \/ RefreshScanFails
    \/ SortAndResolve
    \/ Triage
    \/ UserData
    \/ UserDataPanics
    \/ Attach
    \/ Finish
    \/ NewReturns
    \/ PublishField
    \/ PublishDone
    \/ Read

InitConcurrent ==
    InitWith({V \in Inventories : Cardinality(V) <= MaxVolumesConcurrent})

SpecConcurrent == InitConcurrent /\ [][NextConcurrent]_vars

(***************************************************************************)
(* What the properties are stated on.                                      *)
(***************************************************************************)

\* refresh ran to its end: newMachines is the value it leaves, and the
\* buckets of triageDatasets are still there to compare it with
Assembled == pc = "return"

Volumes == {Deref(p) : p \in z}

\* origins[d.Name] of the pass, as a *string
ResolvedOrigin(d) == OriginOf(origins, d.Name)

\* A mountable / : what a machine root and a history root have in common
MountableRoot(d) == d.Mountpoint = <<"/">> /\ d.CanMount # "off"

\* The states of the result: <<k>> is machine k, <<k, h>> its history state h
StateIds ==
    {<<k>> : k \in DOMAIN newMachines.all}
    \cup UNION {{<<k, h>> : h \in DOMAIN newMachines.all[k].History} :
                    k \in DOMAIN newMachines.all}
StateAt(id) ==
    IF Len(id) = 1 THEN newMachines.all[id[1]]
    ELSE newMachines.all[id[1]].History[id[2]]

SystemRefs(p) == {id \in StateIds : p \in Range(StateAt(id).SystemDatasets)}
UserRefs(p) == {id \in StateIds : p \in Range(StateAt(id).UserDatasets)}
PersistentRefs(p) == {id \in StateIds : p \in Range(StateAt(id).PersistentDatasets)}
Refs(p) == SystemRefs(p) \cup UserRefs(p) \cup PersistentRefs(p)

Enumerated(p) ==
    p \in Range(newMachines.allSystemDatasets) \cup Range(newMachines.allUsersDatasets)
Discarded(p) == p \in Range(ignored)

Occurrences(s, x) == Cardinality({i \in 1..Len(s) : s[i] = x})
PositionIn(s, x) == CHOOSE i \in 1..Len(s) : s[i] = x

\* What claim C2 compares: the keys, and every list with its order
Lists(s) == <<s.SystemDatasets, s.UserDatasets, s.PersistentDatasets>>
Result(ms) ==
    [all |-> [k \in DOMAIN ms.all |->
                [state |-> Lists(ms.all[k]),
                 history |-> [h \in DOMAIN ms.all[k].History |->
                                Lists(ms.all[k].History[h])]]],
     allSystemDatasets |-> ms.allSystemDatasets,
     allUsersDatasets |-> ms.allUsersDatasets]

(***************************************************************************)
(* C1: every dataset ends in a state, in a flat list or in the log.        *)
(***************************************************************************)

\* C1 as the specification words it: after a pass every dataset of the input
\* is referenced from exactly one state, or is referenced from none and is
\* listed in allSystemDatasets / allUsersDatasets, or is referenced from none
\* and was logged as ignored; no dataset is referenced from two states.
C1_Partition ==
    Assembled =>
        \A p \in z :
            \/ Cardinality(Refs(p)) = 1 /\ ~Discarded(p)
            \/ Refs(p) = {} /\ Enumerated(p) /\ ~Discarded(p)
            \/ Refs(p) = {} /\ ~Enumerated(p) /\ Discarded(p)

\* The datasets that are dropped without a log line: a user dataset that
\* cannot be mounted, a persistent dataset when there is no machine
SilentlyDropped(p) ==
    \/ p \in Range(flattenedUserDatas) /\ Deref(p).CanMount = "off"
    \/ p \in Range(persistents) /\ DOMAIN newMachines.all = {}

\* The datasets triageDatasets attached to a machine or a history state
TriagedAsSystem(p) ==
    p \notin Range(boots) \cup Range(flattenedUserDatas)
             \cup Range(persistents) \cup Range(ignored)

\* C1, amended: after a pass every dataset of the input is referenced from
\* at least one state, or listed in allSystemDatasets / allUsersDatasets, or
\* logged as ignored, or is one of the datasets dropped without a log line.
\* An ignored dataset is neither referenced nor listed.  A dataset that triage
\* attached as a machine root, a child or a history root is, once, in the
\* SystemDatasets of exactly one state and in no other list of a state.  A
\* persistent dataset is in the PersistentDatasets of every state.
C1_Coverage ==
    Assembled =>
        \A p \in z :
            /\ Refs(p) # {} \/ Enumerated(p) \/ Discarded(p) \/ SilentlyDropped(p)
            /\ Discarded(p) => Refs(p) = {} /\ ~Enumerated(p)
            /\ TriagedAsSystem(p) =>
                  /\ Cardinality(SystemRefs(p)) = 1
                  /\ \A id \in SystemRefs(p) :
                        Occurrences(StateAt(id).SystemDatasets, p) = 1
                  /\ UserRefs(p) = {}
                  /\ PersistentRefs(p) = {}
            /\ p \in Range(persistents) => PersistentRefs(p) = StateIds

\* A pass that ends with a persistent dataset in two states, a history
\* state, an ignored dataset and a user dataset that cannot be mounted
C1_Witness ==
    /\ Assembled
    /\ \E p \in z : p \in Range(persistents) /\ Cardinality(Refs(p)) >= 2
    /\ \E p \in z : Discarded(p)
    /\ \E p \in z : Deref(p).CanMount = "off" /\ ~Discarded(p)
    /\ \E p \in z : TriagedAsSystem(p) /\ Deref(p).Name \notin DOMAIN newMachines.all

(***************************************************************************)
(* C2: the result does not depend on the order of the map iterations.      *)
(***************************************************************************)

\* C2: a Refresh over the datasets the previous pass saw leaves the result
\* of the previous pass: same machine keys, same history keys, every list
\* with the same contents in the same order.
C2_Determinism ==
    (op = "Refresh" /\ pc = "return" /\ z = zBefore) =>
        Result(newMachines) = Result(before)

(***************************************************************************)
(* C3: the pass never panics.                                              *)
(***************************************************************************)

\* C3: no input makes the pass panic, a root user dataset whose origin does
\* not resolve included.
C3_NeverPanics == pc # "panic"

(***************************************************************************)
(* C4: the machines are the mountable, non cloned / datasets.              *)
(***************************************************************************)

\* C4: after a pass, machines.all has a key k if and only if the input has a
\* dataset named k that is not a snapshot, is mounted on /, has canmount
\* other than off and a resolved origin equal to "".
C4_MainMachineExistence ==
    Assembled =>
        DOMAIN newMachines.all =
            {d.Name : d \in {v \in Volumes :
                                /\ ~v.IsSnapshot
                                /\ MountableRoot(v)
                                /\ ResolvedOrigin(v) = << <<>> >>}}

\* A pass over two roots, a snapshot, a clone and a / that cannot be mounted
C4_Witness ==
    /\ Assembled
    /\ DOMAIN newMachines.all = {RootA, RootB}
    /\ \E v \in Volumes : v.IsSnapshot /\ MountableRoot(v)
    /\ \E v \in Volumes : v.Mountpoint = <<"/">> /\ v.CanMount = "off"
    /\ \E v \in Volumes : MountableRoot(v) /\ ResolvedOrigin(v) = <<RootA>>

(***************************************************************************)
(* C5: the history of a machine.                                           *)
(***************************************************************************)

\* The names of the mountable / datasets whose origin resolves to machine k
ClonesOf(k) ==
    {v.Name : v \in {w \in Volumes : MountableRoot(w) /\ ResolvedOrigin(w) = <<k>>}}

\* C5 as the specification words it: after a pass the history keys of every
\* machine m are exactly the names of the mountable / datasets whose origin
\* resolves to m.ID, whatever their names, and no key is in the history of
\* two machines.
C5_HistoryExactness ==
    Assembled =>
        /\ \A k \in DOMAIN newMachines.all :
              DOMAIN newMachines.all[k].History = ClonesOf(k)
        /\ \A k1, k2 \in DOMAIN newMachines.all :
              k1 # k2 =>
                 DOMAIN newMachines.all[k1].History
                    \cap DOMAIN newMachines.all[k2].History = {}

\* A dataset named below a machine root or below a history root
BelowAState(v) ==
    \E id \in StateIds : StateAt(id).ID # v.Name /\ isChild(StateAt(id).ID, v)

\* C5, amended: after a pass every history key of a machine m is the name of
\* a mountable / dataset whose origin resolves to m.ID and is in the history
\* of no other machine; and every mountable / dataset whose origin resolves
\* to m.ID and whose name is not below a machine root or a history root is a
\* history key of m.
C5_HistoryOfUnnestedClones ==
    Assembled =>
        /\ \A k \in DOMAIN newMachines.all :
              /\ DOMAIN newMachines.all[k].History \subseteq ClonesOf(k)
              /\ \A v \in Volumes :
                    (v.Name \in ClonesOf(k) /\ ~BelowAState(v))
                        => v.Name \in DOMAIN newMachines.all[k].History
        /\ \A k1, k2 \in DOMAIN newMachines.all :
              k1 # k2 =>
                 DOMAIN newMachines.all[k1].History
                    \cap DOMAIN newMachines.all[k2].History = {}

\* A pass that leaves a machine with a snapshot and a clone in its history,
\* the clone being named below no state
C5_Witness ==
    /\ Assembled
    /\ \E k \in DOMAIN newMachines.all :
          /\ Cardinality(DOMAIN newMachines.all[k].History) = 2
          /\ \E v \in Volumes :
                /\ ~v.IsSnapshot
                /\ ~BelowAState(v)
                /\ v.Name \in DOMAIN newMachines.all[k].History

(***************************************************************************)
(* C6: a Refresh that fails.                                               *)
(***************************************************************************)

\* C6: when Refresh has returned an error, the caller's Machines value is
\* the one it was when Refresh was called.
C6_FailedRefreshKeepsValue ==
    (op = "none" /\ pc = "idle" /\ err = "error") => machines = before

\* A Refresh failed on a value that holds a machine and a current machine
C6_Witness ==
    /\ op = "none" /\ pc = "idle" /\ err = "error"
    /\ DOMAIN machines.all # {}
    /\ machines.current # NoMachine
    /\ machines.allUsersDatasets # <<>>

(***************************************************************************)
(* C7: what a reader sees while Refresh runs.                              *)
(***************************************************************************)

\* C7: whenever a reader reads the Machines value, what it reads is the
\* value Refresh was called on, or the whole value the pass has built; while
\* no Refresh runs, it is the caller's value.
C7_AtomicPublication ==
    [][seen' # seen =>
          \/ seen' = before
          \/ op = "Refresh" /\ pc = "return" /\ seen' = newMachines
          \/ pc = "idle" /\ seen' = machines]_vars

(***************************************************************************)
(* C8: allUsersDatasets.                                                   *)
(***************************************************************************)

\* C8: after a pass no dataset of allUsersDatasets has canmount off, and
\* allUsersDatasets is the user bucket of triageDatasets without the datasets
\* that have canmount off, in the order of the bucket.
C8_MountFilter ==
    Assembled =>
        LET users == newMachines.allUsersDatasets
        IN  /\ \A i \in 1..Len(users) : Deref(users[i]).CanMount # "off"
            /\ Range(users) =
                  {p \in Range(flattenedUserDatas) : Deref(p).CanMount # "off"}
            /\ \A i, j \in 1..Len(users) :
                  i < j => PositionIn(flattenedUserDatas, users[i])
                              < PositionIn(flattenedUserDatas, users[j])

\* A pass whose user bucket holds a dataset with canmount off after others
C8_Witness ==
    /\ Assembled
    /\ Len(newMachines.allUsersDatasets) >= 2
    /\ \E p \in Range(flattenedUserDatas) : Deref(p).CanMount = "off"

(***************************************************************************)
(* C9: a child is a child, whatever its origin.                            *)
(***************************************************************************)

\* C9: after a pass, a dataset that is not a machine root and whose name is
\* below the root of any machine, or below a history root, is the key of no
\* history state.
C9_ChildBeforeHistory ==
    Assembled =>
        \A v \in Volumes :
            (v.Name \notin DOMAIN newMachines.all /\ BelowAState(v))
                => \A k \in DOMAIN newMachines.all :
                      v.Name \notin DOMAIN newMachines.all[k].History

(***************************************************************************)
(* C10: the user snapshots of a snapshot history state.                    *)
(***************************************************************************)

\* The root user datasets of the user bucket
UserRoots == DOMAIN getRootDatasets(flattenedUserDatas)

\* C10: after a pass, for every machine m, every history state m.ID@s and
\* every root user dataset R that is not a snapshot and is tagged to m, the
\* snapshot R@s, when the user bucket has it, is in the UserDatasets of the
\* history state.
C10_SnapshotHistoryUsers ==
    Assembled =>
        \A k \in DOMAIN newMachines.all :
            \A h \in DOMAIN newMachines.all[k].History :
                \A r, rs \in UserRoots :
                    (/\ SnapshotOf(h) # <<>>
                     /\ SnapshotBase(h) = k
                     /\ ~Deref(r).IsSnapshot
                     /\ BootfsMatch(Deref(r).BootfsDatasets, k)
                     /\ Deref(rs).Name = Deref(r).Name \o <<"@">> \o SnapshotOf(h))
                        => rs \in Range(newMachines.all[k].History[h].UserDatasets)

====
